---- MODULE Spec2Model ----
(***************************************************************************)
(* Model of the packaging manifest setup.py of pip-tools-compile and of    *)
(* the one operation it takes part in: setuptools' setup() installing the  *)
(* distribution into a Python environment.                                 *)
(*                                                                         *)
(* The manifest is data (name, version, install_requires, scripts).  The   *)
(* requirement strings are kept as the strings of the source and are read  *)
(* the way setuptools reads them (PEP 508 requirement syntax, PEP 440      *)
(* version comparison, environment markers), restricted to the grammar     *)
(* the strings use: a name, comma separated "<op><version>" clauses with   *)
(* op in ==, !=, <=, >=, <, > over dotted numeric release versions, and an *)
(* optional marker "python_version <op> '<version>'".                      *)
(***************************************************************************)
EXTENDS Integers, Sequences, FiniteSets, TLC

VARIABLES manifest, python_version, installed, bin, result, installs

vars == <<manifest, python_version, installed, bin, result, installs>>

(***************************************************************************)
(* Bounds of the model.                                                    *)
(***************************************************************************)
\* how many times setup() is run in one behaviour
MaxInstalls == 3
\* the runtimes are Python 2.0 .. 2.MaxPyMinor and 3.0 .. 3.MaxPyMinor
MaxPyMinor == 10

(***************************************************************************)
(* The manifest: the keyword arguments of the setup() call.                *)
(***************************************************************************)
name == "pip-tools-compile"

version == "1.0"

\* the pip-tools pin loosened to a lower bound
install_requires_unpinned ==
    << "six",
       "pip-tools>=3.6.1",
       "pip==19.3.1",
       "mock>=2.0.0; python_version < '3'" >>

\* the mock requirement without its environment marker
install_requires_unmarked ==
    << "six",
       "pip-tools==3.6.1",
       "pip==19.3.1",
       "mock>=2.0.0" >>

\* a second requirement on pip that contradicts the pin
install_requires_conflicting ==
    << "six",
       "pip-tools==3.6.1",
       "pip==19.3.1",
       "pip>=20.0",
       "mock>=2.0.0; python_version < '3'" >>

\* the lower bound on mock made strict
install_requires_strict ==
    << "six",
       "pip-tools==3.6.1",
       "pip==19.3.1",
       "mock>2.0.0; python_version < '3'" >>

install_requires ==
    << "six",
       "pip-tools==3.6.1",
       "pip==19.3.1",
       "mock>=2.0.0; python_version < '3'" >>

\* no script registered
scripts_none == << >>

scripts == << "pip-tools-compile" >>

\* the files of the source tree that a scripts entry can name
RepoFiles == { "setup.py", "pip-tools-compile" }

(***************************************************************************)
(* Strings.                                                                *)
(***************************************************************************)
Char(s, i) == SubSeq(s, i, i)

Digits == { "0", "1", "2", "3", "4", "5", "6", "7", "8", "9" }

Letters ==
    { "a", "b", "c", "d", "e", "f", "g", "h", "i", "j", "k", "l", "m",
      "n", "o", "p", "q", "r", "s", "t", "u", "v", "w", "x", "y", "z" }

IsNameChar(c) == c \in Letters \cup Digits \cup { "-", "_", "." }

DigitVal(c) ==
    CASE c = "0" -> 0 [] c = "1" -> 1 [] c = "2" -> 2 [] c = "3" -> 3
      [] c = "4" -> 4 [] c = "5" -> 5 [] c = "6" -> 6 [] c = "7" -> 7
      [] c = "8" -> 8 [] c = "9" -> 9

RECURSIVE LStrip(_)
LStrip(s) ==
    IF Len(s) > 0 /\ Char(s, 1) = " " THEN LStrip(SubSeq(s, 2, Len(s))) ELSE s

RECURSIVE RStrip(_)
RStrip(s) ==
    IF Len(s) > 0 /\ Char(s, Len(s)) = " "
    THEN RStrip(SubSeq(s, 1, Len(s) - 1))
    ELSE s

Strip(s) == RStrip(LStrip(s))

\* the first position of character c in s, 0 when there is none
Find(s, c) ==
    IF \E i \in 1..Len(s) : Char(s, i) = c
    THEN CHOOSE i \in 1..Len(s) :
            /\ Char(s, i) = c
            /\ \A j \in 1..(i - 1) : Char(s, j) # c
    ELSE 0

\* the length of the longest prefix of s made of name characters
NameLen(s) ==
    CHOOSE n \in 0..Len(s) :
        /\ \A i \in 1..n : IsNameChar(Char(s, i))
        /\ n = Len(s) \/ ~IsNameChar(Char(s, n + 1))

RECURSIVE ParseInt(_)
ParseInt(s) ==
    IF Len(s) = 0
    THEN 0
    ELSE ParseInt(SubSeq(s, 1, Len(s) - 1)) * 10 + DigitVal(Char(s, Len(s)))

(***************************************************************************)
(* Versions: a release is the sequence of its numeric components.          *)
(***************************************************************************)
RECURSIVE ParseVersion(_)
ParseVersion(s) ==
    LET d == Find(s, ".")
    IN  IF d = 0
        THEN << ParseInt(s) >>
        ELSE << ParseInt(SubSeq(s, 1, d - 1)) >>
                \o ParseVersion(SubSeq(s, d + 1, Len(s)))

Component(v, i) == IF i <= Len(v) THEN v[i] ELSE 0

\* -1, 0 or 1 as v is older than, equal to or newer than w; the shorter
\* release is padded with zeros
VerCmp(v, w) ==
    LET n == IF Len(v) >= Len(w) THEN Len(v) ELSE Len(w)
        D == { i \in 1..n : Component(v, i) # Component(w, i) }
    IN  IF D = {}
        THEN 0
        ELSE LET i == CHOOSE k \in D : \A j \in D : k <= j
             IN  IF Component(v, i) < Component(w, i) THEN -1 ELSE 1

Operators == << "==", "!=", "<=", ">=", "<", ">" >>

IsPrefix(p, s) == Len(p) <= Len(s) /\ SubSeq(s, 1, Len(p)) = p

\* the comparison operator s starts with (the first of Operators that is a
\* prefix of s)
ParseOp(s) ==
    LET k == CHOOSE i \in 1..Len(Operators) :
                /\ IsPrefix(Operators[i], s)
                /\ \A j \in 1..(i - 1) : ~IsPrefix(Operators[j], s)
    IN  Operators[k]

Compare(v, op, w) ==
    CASE op = "==" -> VerCmp(v, w) = 0
      [] op = "!=" -> VerCmp(v, w) # 0
      [] op = "<=" -> VerCmp(v, w) <= 0
      [] op = ">=" -> VerCmp(v, w) >= 0
      [] op = "<"  -> VerCmp(v, w) < 0
      [] op = ">"  -> VerCmp(v, w) > 0

(***************************************************************************)
(* Requirements.                                                           *)
(***************************************************************************)
ParseClause(s) ==
    LET op == ParseOp(s)
    IN  [ op |-> op, version |-> ParseVersion(Strip(SubSeq(s, Len(op) + 1, Len(s)))) ]

\* the set of version clauses of a specifier "c1,c2,..." ("" has none)
RECURSIVE ParseSpecifier(_)
ParseSpecifier(s) ==
    IF Len(s) = 0
    THEN {}
    ELSE LET c == Find(s, ",")
         IN  IF c = 0
             THEN { ParseClause(Strip(s)) }
             ELSE { ParseClause(Strip(SubSeq(s, 1, c - 1))) }
                    \cup ParseSpecifier(Strip(SubSeq(s, c + 1, Len(s))))

\* a marker "<variable> <op> '<version>'"
ParseMarker(s) ==
    LET n    == NameLen(s)
        rest == Strip(SubSeq(s, n + 1, Len(s)))
        op   == ParseOp(rest)
        lit  == Strip(SubSeq(rest, Len(op) + 1, Len(rest)))
    IN  [ variable |-> SubSeq(s, 1, n),
          op       |-> op,
          version  |-> ParseVersion(SubSeq(lit, 2, Len(lit) - 1)) ]

\* a requirement "name[specifier][; marker]"; marker is a sequence of no or
\* one marker
ParseRequirement(s) ==
    LET semi == Find(s, ";")
        left == Strip(IF semi = 0 THEN s ELSE SubSeq(s, 1, semi - 1))
        n    == NameLen(left)
    IN  [ name      |-> SubSeq(left, 1, n),
          specifier |-> ParseSpecifier(Strip(SubSeq(left, n + 1, Len(left)))),
          marker    |-> IF semi = 0
                        THEN << >>
                        ELSE << ParseMarker(Strip(SubSeq(s, semi + 1, Len(s)))) >> ]

\* the marker of requirement r holds on the runtime whose python_version
\* string ("<major>.<minor>") is py
MarkerHolds(r, py) ==
    \A i \in 1..Len(r.marker) :
        /\ r.marker[i].variable = "python_version"
        /\ Compare(ParseVersion(py), r.marker[i].op, r.marker[i].version)

\* the requirements of manifest m that apply on runtime py
Requirements(m, py) ==
    { r \in { ParseRequirement(m.install_requires[i]) :
                  i \in 1..Len(m.install_requires) } : MarkerHolds(r, py) }

\* the version clauses the requirements R put on package p
Clauses(R, p) == UNION { r.specifier : r \in { q \in R : q.name = p } }

Matches(v, C) == \A c \in C : Compare(v, c.op, c.version)

(***************************************************************************)
(* The environment setup() installs into.                                  *)
(***************************************************************************)
NotInstalled == << >>

Packages == { "six", "pip-tools", "pip", "mock", "pip-tools-compile" }

\* the releases the package index offers
Index ==
    [ p \in Packages |->
        CASE p = "six"               -> { <<1, 12, 0>>, <<1, 13, 0>> }
          [] p = "pip-tools"         -> { <<3, 6, 0>>, <<3, 6, 1>>, <<4, 0, 0>> }
          [] p = "pip"               -> { <<9, 0, 3>>, <<19, 3>>, <<19, 3, 1>>, <<20, 0, 2>> }
          [] p = "mock"              -> { <<1, 3, 0>>, <<2, 0, 0>>, <<3, 0, 5>> }
          [] p = "pip-tools-compile" -> { <<1, 0>> } ]

Releases(p) == Index[p] \cup { NotInstalled }

\* the environment with the five packages at the releases a, b, c, d, e
Env(a, b, c, d, e) ==
    [ p \in Packages |->
        CASE p = "six"               -> a
          [] p = "pip-tools"         -> b
          [] p = "pip"               -> c
          [] p = "mock"              -> d
          [] p = "pip-tools-compile" -> e ]

\* every environment: each package not installed or at a release of the index
Environments ==
    { Env(a, b, c, d, e) :
        a \in Releases("six"), b \in Releases("pip-tools"), c \in Releases("pip"),
        d \in Releases("mock"), e \in Releases("pip-tools-compile") }

PythonVersions ==
    { ToString(major) \o "." \o ToString(minor) :
          major \in { 2, 3 }, minor \in 0..MaxPyMinor }

\* the environment env holds a matching release of every package the
\* requirements R name
Satisfies(env, R) ==
    \A r \in R : env[r.name] # NotInstalled /\ Matches(env[r.name], r.specifier)

Newest(V) == CHOOSE v \in V : \A w \in V : VerCmp(v, w) >= 0

\* an install that takes any matching release of the index, whatever is
\* installed
ChoicesAny(env, R, p) ==
    IF ~(\E r \in R : r.name = p)
    THEN { env[p] }
    ELSE { v \in Index[p] : Matches(v, Clauses(R, p)) }

\* the releases of p the install can leave in the environment env, given
\* the requirements R: what is installed when nothing asks for p or when it
\* already matches, else the newest matching release of the index
Choices(env, R, p) ==
    LET C == Clauses(R, p)
        V == { v \in Index[p] : Matches(v, C) }
    IN  IF ~(\E r \in R : r.name = p)
        THEN { env[p] }
        ELSE IF env[p] # NotInstalled /\ Matches(env[p], C)
             THEN { env[p] }
             ELSE IF V = {} THEN {} ELSE { Newest(V) }

(***************************************************************************)
(* The state machine.                                                      *)
(***************************************************************************)
Init ==
    /\ manifest = [ name             |-> name,
                    version          |-> version,
                    install_requires |-> install_requires,
                    scripts          |-> scripts ]
    /\ python_version \in PythonVersions
    /\ installed \in Environments
    /\ bin \in { [ f \in RepoFiles |-> m ] : m \in { "absent", "plain" } }
    /\ result = "none"
    /\ installs = 0

\* what setup() does to the environment: install the requirements that
\* apply, then the distribution itself and its scripts
InstallSteps ==
    /\ installs < MaxInstalls
    /\ installs' = installs + 1
    /\ LET R    == Requirements(manifest, python_version)
           deps == { r.name : r \in R }
       IN  IF \E i \in 1..Len(manifest.scripts) : manifest.scripts[i] \notin RepoFiles
           THEN /\ result' = "missing_script"
                /\ UNCHANGED << installed, bin >>
           ELSE IF \E p \in deps : Choices(installed, R, p) = {}
           THEN /\ result' = "conflict"
                /\ UNCHANGED << installed, bin >>
           ELSE /\ \E a \in Choices(installed, R, "six"),
                      b \in Choices(installed, R, "pip-tools"),
                      c \in Choices(installed, R, "pip"),
                      d \in Choices(installed, R, "mock") :
                      installed' = Env(a, b, c, d, ParseVersion(manifest.version))
                /\ bin' = [ f \in RepoFiles |->
                              IF \E i \in 1..Len(manifest.scripts) : manifest.scripts[i] = f
                              THEN "exec"
                              ELSE bin[f] ]
                /\ result' = "ok"

\* an install that writes the installed releases back into the manifest
InstallFreezing ==
    /\ InstallSteps
    /\ manifest' = [ manifest EXCEPT !.install_requires = << "six", "pip-tools", "pip", "mock" >> ]
    /\ UNCHANGED python_version

\* setup() only reads its arguments and the runtime it runs on
Install ==
    /\ InstallSteps
    /\ UNCHANGED << manifest, python_version >>

Next == Install

Spec == Init /\ [][Next]_vars

(***************************************************************************)
(* Properties.                                                             *)
(***************************************************************************)
\* the requirements that apply in the current state
Applicable == Requirements(manifest, python_version)

\* the major number of the runtime, read off the python_version string
PyMajor == ParseInt(SubSeq(python_version, 1, Find(python_version, ".") - 1))

\* C1: in every state an install has produced, pip-tools is installed at
\* exactly 3.6.1, pip at exactly 19.3.1 and six is installed; and no other
\* release of pip or of pip-tools in place of the installed one satisfies
\* the manifest.
C1_PinsInstalled ==
    LET R == Applicable
    IN  result = "ok" =>
            /\ installed["pip-tools"] = <<3, 6, 1>>
            /\ installed["pip"] = <<19, 3, 1>>
            /\ installed["six"] # NotInstalled
            /\ \A v \in Releases("pip") :
                   Satisfies([ installed EXCEPT !["pip"] = v ], R)
                       => v = <<19, 3, 1>>
            /\ \A v \in Releases("pip-tools") :
                   Satisfies([ installed EXCEPT !["pip-tools"] = v ], R)
                       => v = <<3, 6, 1>>

\* a second install on Python 2.7 has left the pinned releases
C1_Witness ==
    /\ result = "ok"
    /\ installs >= 2
    /\ python_version = "2.7"
    /\ installed["pip"] = <<19, 3, 1>>
    /\ installed["pip-tools"] = <<3, 6, 1>>

\* C2: after an install on a runtime older than Python 3 mock is installed;
\* on every other runtime (3.0 included) the manifest does not ask for
\* mock: the installed state with mock taken out still satisfies it.
C2_MockOnOlderRuntimes ==
    result = "ok" =>
        /\ PyMajor < 3 => installed["mock"] # NotInstalled
        /\ PyMajor >= 3 =>
               Satisfies([ installed EXCEPT !["mock"] = NotInstalled ], Applicable)

\* an install on Python 2.7 has put mock in
C2_Witness ==
    /\ result = "ok"
    /\ python_version = "2.7"
    /\ installed["mock"] = <<3, 0, 5>>

\* C3: after every install the script pip-tools-compile is in place and
\* executable, the scripts list is that one entry, and no other file of the
\* source tree has been made an executable script.
C3_ScriptRegistered ==
    installs > 0 =>
        /\ bin["pip-tools-compile"] = "exec"
        /\ manifest.scripts = << "pip-tools-compile" >>
        /\ \A f \in RepoFiles \ { "pip-tools-compile" } : bin[f] # "exec"

\* an install has made the script executable
C3_Witness ==
    /\ installs = 1
    /\ result = "ok"
    /\ bin["pip-tools-compile"] = "exec"

C5_NoConflict ==
    /\ LET R == Applicable
       IN  \E env \in Environments : Satisfies(env, R)
    /\ result # "conflict"
    /\ installs > 0 => result = "ok"

\* an install on Python 2.7 has put all four requirements in
C5_Witness ==
    /\ result = "ok"
    /\ python_version = "2.7"
    /\ \A p \in { "six", "pip-tools", "pip", "mock" } : installed[p] # NotInstalled

C7_OnlyPinsAreExact ==
    Satisfies(installed, Applicable)
        <=> /\ installed["pip"] = <<19, 3, 1>>
            /\ installed["pip-tools"] = <<3, 6, 1>>
            /\ installed["six"] \in Index["six"]
            /\ PyMajor < 3 =>
                   /\ installed["mock"] # NotInstalled
                   /\ installed["mock"][1] >= 2

\* on Python 2.7, with everything else in place, mock 1.3.0 does not
\* satisfy the manifest
C7_Witness ==
    /\ python_version = "2.7"
    /\ installed["pip"] = <<19, 3, 1>>
    /\ installed["pip-tools"] = <<3, 6, 1>>
    /\ installed["six"] = <<1, 12, 0>>
    /\ installed["mock"] = <<1, 3, 0>>
    /\ ~Satisfies(installed, Applicable)

====
